---- MODULE Spec2Model ----
(***************************************************************************)
(* A model of the DataTable of src/datatable.go.                           *)
(*                                                                         *)
(* A DataTable holds rows [][]string, nrow and ncol.  Go slices are        *)
(* (backing array, offset, length) triples, and Slice, RemoveRow and       *)
(* RemoveColumn work on the backing arrays in place, so the model keeps    *)
(* the two layers of backing arrays explicitly:                            *)
(*   outer[k]  a backing array of row headers (the elements of dt.rows)    *)
(*   inner[k]  a backing array of strings (the cells of one row)           *)
(* A row header [a, n] is the []string stored in a slot of dt.rows: the    *)
(* first n strings of inner[a].  The zero header is the nil slice.         *)
(***************************************************************************)
EXTENDS Integers, Sequences, FiniteSets, TLC

\* ----------------------------------------------------------------- bounds
MaxOps == 2        \* structural operations in one run, after the first table is filled
MaxTables == 3     \* DataTable values alive in one run
MaxCol == 2        \* widest table the caller creates, longest row it passes
InitRows == 2      \* most rows the first table is filled with
JoinRows == 2      \* most rows of a table given to Join or LeftJoin
MaxRows == InitRows + MaxOps + 1    \* rows a table may hold before the caller stops adding

VARIABLES
    outer,      \* Seq of backing arrays of row headers
    inner,      \* Seq of backing arrays of strings
    tables,     \* Seq of DataTable structs
    origin,     \* history: how tables[k] was made (NewDataTable/Slice/Project)
    last,       \* the last call and its outcome
    clean,      \* history: every call so far had in-range arguments
    nops,       \* structural operations so far
    nfresh,     \* rows the caller has built so far
    mrg,        \* the Merge call in progress, if any
    join,       \* the Join or LeftJoin call in progress: its two goroutines and channel
    budget      \* structural operations the caller makes in this run

vars == <<outer, inner, tables, origin, last, clean, nops, nfresh, mrg, join, budget>>

\* ------------------------------------------------------------ Go slices
NilHdr == [a |-> 0, n |-> 0]
NilRows == [arr |-> 0, off |-> 0, len |-> 0]

Heap == [outer |-> outer, inner |-> inner]

Min(a, b) == IF a <= b THEN a ELSE b

\* cap(s) of a slice s of row headers
CapOf(H, s) == IF s.arr = 0 THEN 0 ELSE Len(H.outer[s.arr]) - s.off

\* s[i] (0-based i, 0 <= i < len(s))
HdrAt(H, s, i) == H.outer[s.arr][s.off + i + 1]

\* the strings a row header denotes
CellsOf(H, h) == IF h.a = 0 THEN << >> ELSE SubSeq(H.inner[h.a], 1, h.n)

\* The capacity append gives a grown backing array (gc runtime, growslice:
\* doubling below 256 elements; 24-byte elements keep 1, 2, 4, 8, 16 exact).
GrowCap(oldcap, need) == IF need > 2 * oldcap THEN need ELSE 2 * oldcap

\* (mutant of AppendHdr: every append copies into a new backing array)
AppendHdrAlwaysCopy(H, s, h) ==
    LET newcap == GrowCap(CapOf(H, s), s.len + 1)
        arr == [k \in 1..newcap |->
                   IF k <= s.len THEN HdrAt(H, s, k - 1)
                   ELSE IF k = s.len + 1 THEN h ELSE NilHdr]
    IN [H |-> [H EXCEPT !.outer = Append(@, arr)],
        s |-> [arr |-> Len(H.outer) + 1, off |-> 0, len |-> s.len + 1]]

\* append(s, h): in place when the capacity allows, else into a new array.
AppendHdr(H, s, h) ==
    IF s.len + 1 <= CapOf(H, s)
    THEN [H |-> [H EXCEPT !.outer[s.arr][s.off + s.len + 1] = h],
          s |-> [s EXCEPT !.len = @ + 1]]
    ELSE LET newcap == GrowCap(CapOf(H, s), s.len + 1)
             arr == [k \in 1..newcap |->
                        IF k <= s.len THEN HdrAt(H, s, k - 1)
                        ELSE IF k = s.len + 1 THEN h ELSE NilHdr]
         IN [H |-> [H EXCEPT !.outer = Append(@, arr)],
             s |-> [arr |-> Len(H.outer) + 1, off |-> 0, len |-> s.len + 1]]

\* a []string with the given cells in a new backing array (make / a literal)
MakeRow(H, cells) ==
    [H |-> [H EXCEPT !.inner = Append(@, cells)],
     row |-> [a |-> Len(H.inner) + 1, n |-> Len(cells)]]

\* ------------------------------------------------------------ DataTable
NewDataTable(ncol) == [rows |-> NilRows, nrow |-> 0, ncol |-> ncol]

\* the rows a table stores, as sequences of strings
RowsOf(H, dt) == [i \in 1..dt.rows.len |-> CellsOf(H, HdrAt(H, dt.rows, i - 1))]

\* (mutant of AppendRow: the column count is not checked)
AppendRowNoCheck(H, dt, row) ==
    LET r == AppendHdr(H, dt.rows, row)
    IN [H |-> r.H, dt |-> [dt EXCEPT !.rows = r.s, !.nrow = @ + 1], err |-> "nil"]

\* dt.AppendRow(row)
AppendRow(H, dt, row) ==
    IF row.n # dt.ncol
    THEN [H |-> H, dt |-> dt, err |-> "errNumCol"]
    ELSE LET r == AppendHdr(H, dt.rows, row)
         IN [H |-> r.H, dt |-> [dt EXCEPT !.rows = r.s, !.nrow = @ + 1],
             err |-> "nil"]

\* dt.GetRow(x): row := make([]string, dt.ncol); copy(row, dt.rows[x])
GetRow(H, dt, x) ==
    IF x < 0 \/ x >= dt.rows.len
    THEN [res |-> "panic", row |-> << >>]
    ELSE LET h == HdrAt(H, dt.rows, x)
         IN [res |-> "ok",
             row |-> [j \in 1..dt.ncol |->
                         IF j <= h.n THEN H.inner[h.a][j] ELSE ""]]

\* dt.GetColumn(y): col[x] = row[y] for x, row := range dt.rows
RECURSIVE GetColumnLoop(_, _, _, _, _)
GetColumnLoop(H, dt, y, x, col) ==
    IF x >= dt.rows.len THEN [res |-> "ok", col |-> col]
    ELSE LET h == HdrAt(H, dt.rows, x)
         IN IF y < 0 \/ y >= h.n \/ x >= dt.nrow
            THEN [res |-> "panic", col |-> << >>]
            ELSE GetColumnLoop(H, dt, y, x + 1, Append(col, H.inner[h.a][y + 1]))

GetColumn(H, dt, y) == GetColumnLoop(H, dt, y, 0, << >>)

\* dt.ApplyColumn(fn, y), with fn returning an error at row errAt (never, if
\* errAt < 0); calls lists the <<x, value>> pairs fn was invoked with.
RECURSIVE ApplyColumnLoop(_, _, _, _, _, _)
ApplyColumnLoop(H, dt, errAt, y, x, calls) ==
    IF x >= dt.rows.len THEN [res |-> "ok", calls |-> calls]
    ELSE LET h == HdrAt(H, dt.rows, x)
         IN IF y < 0 \/ y >= h.n
            THEN [res |-> "panic", calls |-> calls]
            ELSE LET c == Append(calls, <<x, H.inner[h.a][y + 1]>>)
                 IN IF x = errAt THEN [res |-> "fnError", calls |-> c]
                    ELSE ApplyColumnLoop(H, dt, errAt, y, x + 1, c)

ApplyColumn(H, dt, errAt, y) == ApplyColumnLoop(H, dt, errAt, y, 0, << >>)

\* append(row[:y], row[y+1:]...) on the backing array of row
CutCell(arr, n, y) ==
    [k \in 1..Len(arr) |-> IF k >= y + 1 /\ k <= n - 1 THEN arr[k + 1] ELSE arr[k]]

\* the loop of RemoveColumn from row x on; a panic leaves the rows done so far
RECURSIVE RemoveColumnLoop(_, _, _, _)
RemoveColumnLoop(H, s, y, x) ==
    IF x >= s.len THEN [H |-> H, res |-> "ok"]
    ELSE LET h == HdrAt(H, s, x)
         IN IF y < 0 \/ y + 1 > h.n
            THEN [H |-> H, res |-> "panic"]
            ELSE RemoveColumnLoop(
                    [H EXCEPT !.inner[h.a] = CutCell(@, h.n, y),
                              !.outer[s.arr][s.off + x + 1] = [a |-> h.a, n |-> h.n - 1]],
                    s, y, x + 1)

\* dt.RemoveColumn(y)
RemoveColumn(H, dt, y) ==
    IF dt.ncol = 1 THEN [H |-> H, dt |-> dt, res |-> "errSingleCol"]
    ELSE LET r == RemoveColumnLoop(H, dt.rows, y, 0)
         IN IF r.res = "panic" THEN [H |-> r.H, dt |-> dt, res |-> "panic"]
            ELSE [H |-> r.H, dt |-> [dt EXCEPT !.ncol = @ - 1], res |-> "ok"]

\* (mutant of RemoveRow: the remaining rows go to a new backing array)
RemoveRowCopy(H, dt, x) ==
    LET s == dt.rows
    IN IF x < 0 \/ x > CapOf(H, s) \/ x + 1 > s.len
       THEN [H |-> H, dt |-> dt, res |-> "panic"]
       ELSE [H |-> [H EXCEPT !.outer = Append(@,
                        [k \in 1..(s.len - 1) |->
                            HdrAt(H, s, IF k <= x THEN k - 1 ELSE k)])],
             dt |-> [dt EXCEPT !.rows = [arr |-> Len(H.outer) + 1, off |-> 0,
                                         len |-> s.len - 1],
                               !.nrow = @ - 1],
             res |-> "ok"]

\* dt.RemoveRow(x): dt.rows = append(dt.rows[:x], dt.rows[x+1:]...); dt.nrow--
RemoveRow(H, dt, x) ==
    LET s == dt.rows
    IN IF x < 0 \/ x > CapOf(H, s) \/ x + 1 > s.len
       THEN [H |-> H, dt |-> dt, res |-> "panic"]
       ELSE [H |-> [H EXCEPT !.outer[s.arr] =
                        [k \in 1..Len(@) |->
                            IF k >= s.off + x + 1 /\ k <= s.off + s.len - 1
                            THEN @[k + 1] ELSE @[k]]],
             dt |-> [dt EXCEPT !.rows.len = @ - 1, !.nrow = @ - 1],
             res |-> "ok"]

\* row2[y2] = row[y] for y2, y := range ys
ProjectRow(H, h, ys) ==
    IF \E k \in 1..Len(ys) : ys[k] < 0 \/ ys[k] >= h.n
    THEN [res |-> "panic", cells |-> << >>]
    ELSE [res |-> "ok", cells |-> [k \in 1..Len(ys) |-> H.inner[h.a][ys[k] + 1]]]

\* the loop of Project from row x on
RECURSIVE ProjectLoop(_, _, _, _, _)
ProjectLoop(H, dt, dt2, ys, x) ==
    IF x >= dt.rows.len THEN [H |-> H, dt2 |-> dt2, res |-> "ok"]
    ELSE LET p == ProjectRow(H, HdrAt(H, dt.rows, x), ys)
         IN IF p.res = "panic" THEN [H |-> H, dt2 |-> dt2, res |-> "panic"]
            ELSE LET m == MakeRow(H, p.cells)
                     a == AppendRow(m.H, dt2, m.row)
                 IN IF a.err # "nil" THEN [H |-> a.H, dt2 |-> dt2, res |-> "panic"]
                    ELSE ProjectLoop(a.H, dt, a.dt, ys, x + 1)

\* (mutant of Project: the new table is laid over the source's rows instead
\* of receiving copies of them)
ProjectShallow(H, dt, ys) ==
    IF \E x \in 0..(dt.rows.len - 1) : ProjectRow(H, HdrAt(H, dt.rows, x), ys).res = "panic"
    THEN [H |-> H, dt2 |-> NewDataTable(Len(ys)), res |-> "panic"]
    ELSE [H |-> H, dt2 |-> [dt EXCEPT !.ncol = Len(ys)], res |-> "ok"]

\* dt.Project(ys...)
Project(H, dt, ys) == ProjectLoop(H, dt, NewDataTable(Len(ys)), ys, 0)

\* dt.Slice(x, n): rows := dt.rows[x:end] shares dt's backing array
Slice(H, dt, x, n) ==
    LET e0 == x + n
        end == IF e0 >= dt.nrow THEN dt.nrow ELSE e0
    IN IF x < 0 \/ end < x \/ end > CapOf(H, dt.rows)
       THEN [res |-> "panic", dt |-> dt]
       ELSE [res |-> "ok",
             dt |-> [rows |-> [arr |-> dt.rows.arr, off |-> dt.rows.off + x,
                               len |-> end - x],
                     nrow |-> end - x, ncol |-> dt.ncol]]

\* row1[y1] = row2[matches[y1]] where y1 is a key of matches, "" elsewhere
MergeRow(row2, ncol, matches) ==
    IF \E y1 \in 0..(ncol - 1) :
          y1 \in DOMAIN matches /\ (matches[y1] < 0 \/ matches[y1] >= Len(row2))
    THEN [res |-> "panic", cells |-> << >>]
    ELSE [res |-> "ok",
          cells |-> [j \in 1..ncol |->
                        IF (j - 1) \in DOMAIN matches
                        THEN row2[matches[j - 1] + 1] ELSE ""]]

\* one iteration of the loop of dt.Merge(dt2, matches), at row x2 of dt2
MergeIter(H, dt, dt2, matches, x2) ==
    LET g == GetRow(H, dt2, x2)
        r == MergeRow(g.row, dt.ncol, matches)
        m == MakeRow(H, r.cells)
        a == AppendRow(m.H, dt, m.row)
    IN IF g.res = "panic" \/ r.res = "panic" THEN [H |-> H, dt |-> dt, res |-> "panic"]
       ELSE IF a.err # "nil" THEN [H |-> a.H, dt |-> dt, res |-> "panic"]
       ELSE [H |-> a.H, dt |-> a.dt, res |-> "ok"]

\* ------------------------------------------------------------- the caller
Names ==
    << <<"a1", "a2", "a3", "a4", "a5">>, <<"b1", "b2", "b3", "b4", "b5">>,
       <<"c1", "c2", "c3", "c4", "c5">>, <<"d1", "d2", "d3", "d4", "d5">>,
       <<"e1", "e2", "e3", "e4", "e5">>, <<"f1", "f2", "f3", "f4", "f5">>,
       <<"g1", "g2", "g3", "g4", "g5">>, <<"h1", "h2", "h3", "h4", "h5">> >>

\* The k-th row the caller builds, n cells wide.  The table never compares or
\* inspects cell values, so pairwise distinct cells are the general case.
FreshCells(k, n) == [j \in 1..n |-> Names[((k - 1) % 8) + 1][((j - 1) % 5) + 1]]

Call(op, t, u, x, n, vals, res) ==
    [op |-> op, t |-> t, u |-> u, x |-> x, n |-> n, vals |-> vals, res |-> res]

NoMerge == [on |-> FALSE, t |-> 0, u |-> 0, m |-> << >>, x2 |-> 0,
            want |-> << >>, base |-> << >>]

NoJoin == [kind |-> "none"]

T == DOMAIN tables

\* Calls that leave every table as it was.
Reads == {"GetRow", "GetColumn", "ApplyColumn"}

\* The caller may make its next call.  A panic ends the program.  A call that
\* changed nothing (a read, a refused AppendRow or RemoveColumn) leaves the
\* state it was made in, and the calls that can follow it are explored from
\* that state, so the run is not continued after it.
Idle == ~mrg.on /\ last.res = "ok" /\ last.op \notin Reads

\* column lists the caller projects on: one column, a repeated column, the
\* last and the first swapped, and one index past the last column
ProjectLists(ncol) == { <<0>>, <<0, 0>>, <<ncol - 1, 0>>, <<ncol>> }

\* column maps the caller merges with: the identity on the common columns,
\* a map that leaves columns unmapped, and one with a source index out of range
MatchMaps(nt, nu) ==
    { [i \in 0..(Min(nt, nu) - 1) |-> i],
      [i \in {nt - 1} |-> 0],
      [i \in {0} |-> nu] }

\* dt := NewDataTable(ncol) followed by k calls dt.AppendRow(row), the rows
\* being the caller's first k rows
RECURSIVE Filled(_, _)
Filled(ncol, k) ==
    IF k = 0
    THEN [H |-> [outer |-> << >>, inner |-> << >>], dt |-> NewDataTable(ncol)]
    ELSE LET p == Filled(ncol, k - 1)
             m == MakeRow(p.H, FreshCells(k, ncol))
             a == AppendRow(m.H, p.dt, m.row)
         IN [H |-> a.H, dt |-> a.dt]

\* One table, created by NewDataTable and filled by AppendRow with a number
\* of rows in ks; the caller goes on to make b structural calls.
TStartRows(b, ks) ==
    /\ budget = b
    /\ \E c \in 1..MaxCol, k \in ks :
          LET f == Filled(c, k)
          IN /\ outer = f.H.outer
             /\ inner = f.H.inner
             /\ tables = << f.dt >>
             /\ nfresh = k
    /\ origin = << [kind |-> "new", from |-> 0] >>
    /\ last = Call("NewDataTable", 1, 0, 0, 0, << >>, "ok")
    /\ clean = TRUE
    /\ nops = 0
    /\ mrg = NoMerge
    /\ join = NoJoin

DoNewDataTable ==
    /\ Idle /\ nops < budget /\ Len(tables) < MaxTables
    /\ \E c \in 1..MaxCol :
          /\ tables' = Append(tables, NewDataTable(c))
          /\ last' = Call("NewDataTable", Len(tables) + 1, 0, c, 0, << >>, "ok")
    /\ origin' = Append(origin, [kind |-> "new", from |-> 0])
    /\ nops' = nops + 1
    /\ UNCHANGED <<outer, inner, clean, nfresh, mrg, join, budget>>

DoAppendRow ==
    /\ Idle /\ nops < budget
    /\ \E t \in T, n \in 1..MaxCol :
          /\ tables[t].nrow < MaxRows
          /\ LET cells == FreshCells(nfresh + 1, n)
                 m == MakeRow(Heap, cells)
                 a == AppendRow(m.H, tables[t], m.row)
             IN /\ outer' = a.H.outer
                /\ inner' = a.H.inner
                /\ tables' = [tables EXCEPT ![t] = a.dt]
                /\ last' = Call("AppendRow", t, 0, 0, n, cells,
                                IF a.err = "nil" THEN "ok" ELSE a.err)
    /\ nfresh' = nfresh + 1
    /\ nops' = nops + 1
    /\ UNCHANGED <<origin, clean, mrg, join, budget>>

DoGetRow ==
    /\ Idle /\ nops < budget
    /\ \E t \in T, x \in -1..MaxRows :
          /\ x <= tables[t].nrow
          /\ LET g == GetRow(Heap, tables[t], x)
             IN last' = Call("GetRow", t, 0, x, 0, g.row, g.res)
          /\ clean' = (clean /\ x >= 0 /\ x < tables[t].nrow)
    /\ UNCHANGED <<outer, inner, tables, origin, nops, nfresh, mrg, join, budget>>

DoGetColumn ==
    /\ Idle /\ nops < budget
    /\ \E t \in T, y \in -1..MaxCol :
          /\ y <= tables[t].ncol
          /\ LET g == GetColumn(Heap, tables[t], y)
             IN last' = Call("GetColumn", t, 0, y, 0, g.col, g.res)
          /\ clean' = (clean /\ y >= 0 /\ y < tables[t].ncol)
    /\ UNCHANGED <<outer, inner, tables, origin, nops, nfresh, mrg, join, budget>>

DoApplyColumn ==
    /\ Idle /\ nops < budget
    /\ \E t \in T, y \in -1..MaxCol, errAt \in {-1, 0, 1} :
          /\ y <= tables[t].ncol
          /\ LET g == ApplyColumn(Heap, tables[t], errAt, y)
             IN last' = Call("ApplyColumn", t, 0, y, errAt, g.calls, g.res)
          /\ clean' = (clean /\ y >= 0 /\ y < tables[t].ncol)
    /\ UNCHANGED <<outer, inner, tables, origin, nops, nfresh, mrg, join, budget>>

DoRemoveColumn ==
    /\ Idle /\ nops < budget
    /\ \E t \in T, y \in -1..MaxCol :
          /\ y <= tables[t].ncol
          /\ LET r == RemoveColumn(Heap, tables[t], y)
             IN /\ outer' = r.H.outer
                /\ inner' = r.H.inner
                /\ tables' = [tables EXCEPT ![t] = r.dt]
                /\ last' = Call("RemoveColumn", t, 0, y, 0, << >>, r.res)
          /\ clean' = (clean /\ y >= 0 /\ y < tables[t].ncol)
    /\ nops' = nops + 1
    /\ UNCHANGED <<origin, nfresh, mrg, join, budget>>

DoRemoveRow ==
    /\ Idle /\ nops < budget
    /\ \E t \in T, x \in -1..MaxRows :
          /\ x <= tables[t].nrow
          /\ LET r == RemoveRow(Heap, tables[t], x)
             IN /\ outer' = r.H.outer
                /\ inner' = r.H.inner
                /\ tables' = [tables EXCEPT ![t] = r.dt]
                /\ last' = Call("RemoveRow", t, 0, x, 0, << >>, r.res)
          /\ clean' = (clean /\ x >= 0 /\ x < tables[t].nrow)
    /\ nops' = nops + 1
    /\ UNCHANGED <<origin, nfresh, mrg, join, budget>>

DoProject ==
    /\ Idle /\ nops < budget /\ Len(tables) < MaxTables
    /\ \E t \in T :
       \E ys \in ProjectLists(tables[t].ncol) :
          /\ LET r == Project(Heap, tables[t], ys)
             IN IF r.res = "ok"
                THEN /\ outer' = r.H.outer
                     /\ inner' = r.H.inner
                     /\ tables' = Append(tables, r.dt2)
                     /\ origin' = Append(origin, [kind |-> "project", from |-> t])
                     /\ last' = Call("Project", t, Len(tables) + 1, 0, 0, ys, "ok")
                ELSE /\ last' = Call("Project", t, 0, 0, 0, ys, "panic")
                     /\ UNCHANGED <<outer, inner, tables, origin>>
          /\ clean' = (clean /\ \A k \in 1..Len(ys) :
                                   ys[k] >= 0 /\ ys[k] < tables[t].ncol)
    /\ nops' = nops + 1
    /\ UNCHANGED <<nfresh, mrg, join, budget>>

DoSlice ==
    /\ Idle /\ nops < budget /\ Len(tables) < MaxTables
    /\ \E t \in T, x \in -1..MaxRows, n \in -1..2 :
          /\ x <= tables[t].nrow + 1
          /\ LET r == Slice(Heap, tables[t], x, n)
             IN IF r.res = "ok"
                THEN /\ tables' = Append(tables, r.dt)
                     /\ origin' = Append(origin, [kind |-> "slice", from |-> t])
                     /\ last' = Call("Slice", t, Len(tables) + 1, x, n, << >>, "ok")
                ELSE /\ last' = Call("Slice", t, 0, x, n, << >>, "panic")
                     /\ UNCHANGED <<tables, origin>>
          /\ clean' = (clean /\ x >= 0 /\ x < tables[t].nrow /\ n >= 0)
    /\ nops' = nops + 1
    /\ UNCHANGED <<outer, inner, nfresh, mrg, join, budget>>

\* the rows Merge is to append: one per row of dt2 at the call, mapped
MergeWant(H, dt, dt2, matches) ==
    [i \in 1..dt2.nrow |->
        [j \in 1..dt.ncol |->
            IF (j - 1) \in DOMAIN matches /\ matches[j - 1] >= 0
               /\ matches[j - 1] < dt2.ncol
            THEN GetRow(H, dt2, i - 1).row[matches[j - 1] + 1] ELSE ""]]

\* dt.Merge(dt2, matches) is entered: x2 := 0
MergeBegin ==
    /\ Idle /\ nops < budget
    /\ \E t \in T, u \in T :
       \E m \in MatchMaps(tables[t].ncol, tables[u].ncol) :
          /\ t # u => tables[t].nrow + tables[u].nrow <= MaxRows
          /\ mrg' = [on |-> TRUE, t |-> t, u |-> u, m |-> m, x2 |-> 0,
                     want |-> MergeWant(Heap, tables[t], tables[u], m),
                     base |-> RowsOf(Heap, tables[t])]
          /\ last' = Call("Merge", t, u, 0, 0, << >>, "running")
          /\ clean' = (clean /\ \A i \in DOMAIN m :
                                   i < tables[t].ncol =>
                                       m[i] >= 0 /\ m[i] < tables[u].ncol)
    /\ nops' = nops + 1
    /\ UNCHANGED <<outer, inner, tables, origin, nfresh, join, budget>>

\* the loop test x2 < dt2.NumRow() holds: one more row is merged
MergeStep ==
    /\ mrg.on /\ last.res = "running"
    /\ mrg.x2 < tables[mrg.u].nrow
    /\ tables[mrg.t].nrow < MaxRows
    /\ LET r == MergeIter(Heap, tables[mrg.t], tables[mrg.u], mrg.m, mrg.x2)
       IN /\ outer' = r.H.outer
          /\ inner' = r.H.inner
          /\ tables' = [tables EXCEPT ![mrg.t] = r.dt]
          /\ last' = [last EXCEPT !.res = IF r.res = "ok" THEN "running" ELSE "panic",
                                  !.n = IF r.res = "ok" THEN @ + 1 ELSE @]
    /\ mrg' = [mrg EXCEPT !.x2 = @ + 1]
    /\ UNCHANGED <<origin, clean, nops, nfresh, join, budget>>

\* the loop test fails: Merge returns
MergeEnd ==
    /\ mrg.on /\ last.res = "running"
    /\ ~(mrg.x2 < tables[mrg.u].nrow)
    /\ mrg' = [mrg EXCEPT !.on = FALSE]
    /\ last' = [last EXCEPT !.res = "ok"]
    /\ UNCHANGED <<outer, inner, tables, origin, clean, nops, nfresh, join, budget>>

TNext ==
    \/ DoNewDataTable
    \/ DoAppendRow
    \/ DoGetRow
    \/ DoGetColumn
    \/ DoApplyColumn
    \/ DoRemoveColumn
    \/ DoRemoveRow
    \/ DoProject
    \/ DoSlice
    \/ MergeBegin
    \/ MergeStep
    \/ MergeEnd

TStart(b) == TStartRows(b, 0..InitRows)

TInit == TStart(MaxOps)

TInitDeep == TStart(MaxOps + 1)

Spec == TInit /\ [][TNext]_vars

\* the same program, the caller making one more call
SpecDeep == TInitDeep /\ [][TNext]_vars

\* the same program, the first table one row longer
TInitWide == TStartRows(MaxOps, {InitRows + 1})

SpecWide == TInitWide /\ [][TNext]_vars

\* ------------------------------------------------- properties of the table
HeapNext == [outer |-> outer', inner |-> inner']

\* the table a slice was (transitively) cut from; NewDataTable and Project
\* results own their storage
RECURSIVE Root(_, _)
Root(o, t) == IF o[t].kind = "slice" THEN Root(o, o[t].from) ELSE t

\* seq without its element at 0-based index y
Without(seq, y) ==
    [k \in 1..(Len(seq) - 1) |-> IF k <= y THEN seq[k] ELSE seq[k + 1]]

I1 ==
    \A t \in T :
        /\ tables[t].nrow = tables[t].rows.len
        /\ \A i \in 0..(tables[t].rows.len - 1) :
              HdrAt(Heap, tables[t].rows, i).n = tables[t].ncol

\* C1: after any sequence of AppendRow, RemoveRow, RemoveColumn, Slice, Project
\* and Merge calls with in-range indexes, every table has row_count equal to
\* its number of stored rows and every stored row has col_count cells.
C1_InvariantI1 == clean => I1

\* C2 (as stated): AppendRow through a slice increases only the slice's
\* row_count and leaves every row of the parent as it was.
C2_SliceAppendSparesParent ==
    [][ (last'.op = "AppendRow" /\ last'.res = "ok"
            /\ origin[last'.t].kind = "slice")
        => LET t == last'.t
               p == origin[t].from
           IN /\ tables'[t].nrow = tables[t].nrow + 1
              /\ tables'[p].nrow = tables[p].nrow
              /\ \A i \in 1..tables[p].nrow :
                    RowsOf(HeapNext, tables'[p])[i] = RowsOf(Heap, tables[p])[i]
      ]_vars

\* C2 (amended): AppendRow through a table t increases only t's row_count;
\* every other table keeps its row_count and col_count, and keeps every row
\* except the one stored in the slot just after t's last row of a backing
\* array it shares with t, which becomes the appended row.
C2_SliceAppendOverwritesNextSlot ==
    [][ (last'.op = "AppendRow" /\ last'.res = "ok")
        => LET t == last'.t
           IN /\ tables'[t].nrow = tables[t].nrow + 1
              /\ \A u \in T \ {t} :
                    /\ tables'[u] = tables[u]
                    /\ \A i \in 1..tables[u].rows.len :
                          IF /\ tables[u].rows.arr = tables[t].rows.arr
                             /\ tables[u].rows.off + i
                                   = tables[t].rows.off + tables[t].rows.len + 1
                          THEN RowsOf(HeapNext, tables'[u])[i] = last'.vals
                          ELSE RowsOf(HeapNext, tables'[u])[i]
                                   = RowsOf(Heap, tables[u])[i]
      ]_vars

\* an AppendRow through a slice has replaced a row of its parent
C2_Witness ==
    /\ last.op = "AppendRow" /\ last.res = "ok"
    /\ origin[last.t].kind = "slice"
    /\ LET t == tables[last.t]
           p == tables[origin[last.t].from]
       IN /\ p.rows.arr = t.rows.arr
          /\ \E i \in 1..p.nrow :
                /\ p.rows.off + i = t.rows.off + t.rows.len
                /\ RowsOf(Heap, p)[i] = last.vals

\* C3: Slice(start, count) with start outside [0, row_count) or count < 0
\* reports an error to the caller (it neither returns a table nor aborts) and
\* leaves the parent unchanged.
C3_SliceReportsErrors ==
    [][ (last'.op = "Slice"
            /\ (last'.x < 0 \/ last'.x >= tables[last'.t].nrow \/ last'.n < 0))
        => /\ last'.res \notin {"ok", "panic"}
           /\ tables' = tables
           /\ RowsOf(HeapNext, tables'[last'.t]) = RowsOf(Heap, tables[last'.t])
      ]_vars

\* C4: GetRow(x), RemoveRow(x) with x outside [0, row_count) and GetColumn(y),
\* ApplyColumn(fn, y) with y outside [0, col_count) fail (here a panic counts
\* as failing), leave the table unchanged and never invoke fn.
C4_IndexErrorsReported ==
    [][ (\/ /\ last'.op \in {"GetRow", "RemoveRow"}
            /\ (last'.x < 0 \/ last'.x >= tables[last'.t].nrow)
         \/ /\ last'.op \in {"GetColumn", "ApplyColumn"}
            /\ (last'.x < 0 \/ last'.x >= tables[last'.t].ncol))
        => /\ last'.res # "ok"
           /\ last'.vals = << >>
           /\ tables' = tables
           /\ RowsOf(HeapNext, tables'[last'.t]) = RowsOf(Heap, tables[last'.t])
      ]_vars

\* C5: AppendRow(values) succeeds iff len(values) = col_count; on success the
\* rows are the previous rows followed by values, row_count grows by one and
\* col_count is unchanged; otherwise it returns errNumCol and nothing changes.
C5_AppendRow ==
    [][ last'.op = "AppendRow"
        => LET t == last'.t
               v == last'.vals
           IN /\ (last'.res = "ok") <=> (Len(v) = tables[t].ncol)
              /\ last'.res = "ok" =>
                    /\ RowsOf(HeapNext, tables'[t]) = Append(RowsOf(Heap, tables[t]), v)
                    /\ tables'[t].nrow = tables[t].nrow + 1
                    /\ tables'[t].ncol = tables[t].ncol
              /\ last'.res # "ok" =>
                    /\ last'.res = "errNumCol"
                    /\ tables' = tables
                    /\ \A u \in T : RowsOf(HeapNext, tables'[u]) = RowsOf(Heap, tables[u])
      ]_vars

\* an AppendRow has succeeded on a table that already had rows
C5_Witness ==
    /\ last.op = "AppendRow" /\ last.res = "ok"
    /\ tables[last.t].nrow >= 2
    /\ RowsOf(Heap, tables[last.t])[tables[last.t].nrow] = last.vals

\* C6: RemoveColumn(y) with col_count = 1 fails with errSingleCol and changes
\* nothing; with col_count > 1 and y in range it succeeds, col_count drops by
\* one, row_count is unchanged and every row loses its cell at index y.
C6_RemoveColumn ==
    [][ last'.op = "RemoveColumn"
        => LET t == last'.t
               y == last'.x
               before == RowsOf(Heap, tables[t])
               after == RowsOf(HeapNext, tables'[t])
           IN /\ tables[t].ncol = 1 =>
                    /\ last'.res = "errSingleCol"
                    /\ tables' = tables
                    /\ after = before
              /\ (tables[t].ncol > 1 /\ y >= 0 /\ y < tables[t].ncol) =>
                    /\ last'.res = "ok"
                    /\ tables'[t].ncol = tables[t].ncol - 1
                    /\ tables'[t].nrow = tables[t].nrow
                    /\ Len(after) = Len(before)
                    /\ \A i \in 1..Len(before) : after[i] = Without(before[i], y)
      ]_vars

\* C7: a table made by Project shares no storage with its source: no call on
\* a table changes the row_count, the col_count or a cell of a table that was
\* not cut from the same NewDataTable or Project result by Slice.
C7_ProjectIndependent ==
    [][ \A u \in T :
           Root(origin', u) # Root(origin', last'.t)
           => /\ tables'[u] = tables[u]
              /\ RowsOf(HeapNext, tables'[u]) = RowsOf(Heap, tables[u])
      ]_vars

\* a column has been removed from a projection that has rows, its source
\* still being there
C7_Witness ==
    /\ last.op = "RemoveColumn" /\ last.res = "ok"
    /\ origin[last.t].kind = "project"
    /\ tables[last.t].nrow >= 1
    /\ tables[origin[last.t].from].nrow >= 1

\* C8: Merge terminates having appended exactly one row per row other had at
\* the call, in order, each the mapped image of that row, also when other is
\* self or shares storage with self.
C8_Merge ==
    (clean /\ last.op = "Merge" /\ last.res \in {"running", "ok"})
    => LET cur == RowsOf(Heap, tables[mrg.t])
           nb == Len(mrg.base)
       IN /\ Len(cur) <= nb + Len(mrg.want)
          /\ \A k \in 1..(Len(cur) - nb) : cur[nb + k] = mrg.want[k]
          /\ last.res = "ok" => Len(cur) = nb + Len(mrg.want)

\* the slice t lies inside the rows of the table p it was cut from: they
\* share the backing array and t's rows are p's rows [s, e)
Covers(t, p) ==
    /\ tables[t].rows.arr # 0
    /\ tables[t].rows.arr = tables[p].rows.arr
    /\ tables[p].rows.off <= tables[t].rows.off
    /\ tables[t].rows.off + tables[t].rows.len <= tables[p].rows.off + tables[p].rows.len

\* C16: RemoveRow(x) through a slice that covers parent rows [s, e) leaves the
\* slice with its former rows without row x, moves the parent's rows
\* s+x+1 .. e-1 to s+x .. e-2, and leaves the parent's row_count, col_count
\* and every parent row outside [s, e) unchanged.
C16_RemoveRowThroughSlice ==
    [][ (/\ last'.op = "RemoveRow" /\ last'.res = "ok"
         /\ origin[last'.t].kind = "slice"
         /\ Covers(last'.t, origin[last'.t].from))
        => LET t == last'.t
               p == origin[t].from
               x == last'.x
               s == tables[t].rows.off - tables[p].rows.off
               e == s + tables[t].rows.len
               pold == RowsOf(Heap, tables[p])
               pnew == RowsOf(HeapNext, tables'[p])
           IN /\ tables'[t].nrow = e - s - 1
              /\ tables'[t].ncol = tables[t].ncol
              /\ RowsOf(HeapNext, tables'[t]) = Without(RowsOf(Heap, tables[t]), x)
              /\ tables'[p] = tables[p]
              /\ Len(pnew) = Len(pold)
              /\ \A i \in 0..(Len(pold) - 1) :
                    pnew[i + 1] = IF s + x <= i /\ i <= e - 2 THEN pold[i + 2]
                                  ELSE IF i < s \/ i >= e THEN pold[i + 1]
                                  ELSE pnew[i + 1]
      ]_vars

\* a row other than the last has been removed through a slice of two rows
\* that leaves out a row of its parent: the parent shows the shift inside
\* the shared range and still has its rows outside it
C16_Witness ==
    /\ last.op = "RemoveRow" /\ last.res = "ok" /\ last.x = 0
    /\ origin[last.t].kind = "slice"
    /\ tables[last.t].nrow = 1
    /\ LET t == tables[last.t]
           p == tables[origin[last.t].from]
       IN /\ p.rows.arr = t.rows.arr
          /\ p.nrow >= 3
          /\ p.nrow > t.nrow + 1
          /\ RowsOf(Heap, t)[1] = RowsOf(Heap, p)[t.rows.off - p.rows.off + 1]
          /\ RowsOf(Heap, p)[t.rows.off - p.rows.off + 1]
                = RowsOf(Heap, p)[t.rows.off - p.rows.off + 2]

\* ------------------------------------------------------ Join and LeftJoin
\* Join and LeftJoin run two goroutines over an unbuffered channel out: the
\* producer walks the pairs of rows and sends the joined rows, the consumer
\* (the calling goroutine) appends each received row to the result.  join
\* holds both positions: ppc/i/j/l/rowsJoined/pending of the producer, cpc and
\* row of the consumer, closed for close(out).  tables[1] is left, tables[2]
\* is right and tables[3], once made, is joined.

Keys == {"a", "b"}

\* the functions fn(l, r) the caller joins with
Preds == {"eq0", "ne0", "true", "false"}

\* the key functions fnLeft, fnRight the caller hash-joins with: the value of
\* column 0, and one key for every row
KeyFns == {"col0", "const"}

KeyOf(k, row) == IF k = "col0" THEN row[1] ELSE "a"

\* func(l, r []string) bool { return fnLeft(l) == fnRight(r) }, by name
EqPreds ==
    [ col0_col0 |-> <<"col0", "col0">>, col0_const |-> <<"col0", "const">>,
      const_col0 |-> <<"const", "col0">>, const_const |-> <<"const", "const">> ]

Fn(f, l, r) ==
    CASE f = "eq0" -> l[1] = r[1]
      [] f = "ne0" -> l[1] # r[1]
      [] f = "true" -> TRUE
      [] f \in DOMAIN EqPreds -> KeyOf(EqPreds[f][1], l) = KeyOf(EqPreds[f][2], r)
      [] OTHER -> FALSE

\* the rows of the left (2 columns) and right (3 columns) arguments with the
\* given keys in column 0; the other cells name the row
LeftRows(ks) == [k \in 1..Len(ks) |-> <<ks[k], Names[k][1]>>]
RightRows(ks) == [k \in 1..Len(ks) |-> <<ks[k], Names[k][2], Names[k][3]>>]

KeySeqs == UNION { [1..n -> Keys] : n \in 0..JoinRows }

\* dt := NewDataTable(ncol) followed by dt.AppendRow(rows[k]) for every k
RECURSIVE FilledWith(_, _, _, _)
FilledWith(H, ncol, rows, k) ==
    IF k = 0 THEN [H |-> H, dt |-> NewDataTable(ncol)]
    ELSE LET p == FilledWith(H, ncol, rows, k - 1)
             m == MakeRow(p.H, rows[k])
             a == AppendRow(m.H, p.dt, m.row)
         IN [H |-> a.H, dt |-> a.dt]

\* (mutant of JoinedRow: the right row first)
JoinedRowSwapped(l, r) == r \o l

\* append(l, r...): l is the copy GetRow made, of length and capacity ncol
JoinedRow(l, r) == l \o r

\* make([]string, n)
EmptyRow(n) == [k \in 1..n |-> ""]

\* (mutant of NeedsPad: the padded row is sent for every left row)
NeedsPadAlways(rowsJoined) == TRUE

\* rowsJoined == 0 after the scan of right
NeedsPad(rowsJoined) == rowsJoined = 0

JInit ==
    /\ \E kl \in KeySeqs, kr \in KeySeqs, f \in Preds, kind \in {"Join", "LeftJoin"} :
          LET L == FilledWith([outer |-> << >>, inner |-> << >>], 2, LeftRows(kl), Len(kl))
              R == FilledWith(L.H, 3, RightRows(kr), Len(kr))
          IN /\ outer = R.H.outer
             /\ inner = R.H.inner
             /\ tables = << L.dt, R.dt >>
             /\ join = [kind |-> kind, fn |-> f,
                        left0 |-> LeftRows(kl), right0 |-> RightRows(kr),
                        ppc |-> "outer", i |-> 0, j |-> 0, l |-> << >>,
                        rowsJoined |-> 0, pending |-> NilHdr, closed |-> FALSE,
                        cpc |-> "new", row |-> NilHdr, sent |-> << >>]
    /\ origin = << [kind |-> "new", from |-> 0], [kind |-> "new", from |-> 0] >>
    /\ last = Call("Join", 1, 2, 0, 0, << >>, "running")
    /\ clean = TRUE
    /\ nops = 0
    /\ nfresh = 0
    /\ mrg = NoMerge
    /\ budget = 0

JFrame == UNCHANGED <<origin, last, clean, nops, nfresh, mrg, budget>>

\* for i := 0; i < left.NumRow(); i++ { l := left.GetRow(i); ...
ProducerOuter ==
    /\ join.kind # "none" /\ join.ppc = "outer"
    /\ IF join.i < tables[1].nrow
       THEN join' = [join EXCEPT !.l = GetRow(Heap, tables[1], join.i).row,
                                 !.j = 0, !.rowsJoined = 0, !.ppc = "inner"]
       ELSE join' = [join EXCEPT !.ppc = "close"]
    /\ UNCHANGED <<outer, inner, tables>>
    /\ JFrame

\* for j := 0; j < right.NumRow(); j++ { r := right.GetRow(j); if fn(l, r) {
\* the joined row is built and the producer reaches its send
ProducerInner ==
    /\ join.kind # "none" /\ join.ppc = "inner"
    /\ join.j < tables[2].nrow
    /\ LET r == GetRow(Heap, tables[2], join.j).row
       IN IF Fn(join.fn, join.l, r)
          THEN LET m == MakeRow(Heap, JoinedRow(join.l, r))
               IN /\ outer' = m.H.outer
                  /\ inner' = m.H.inner
                  /\ join' = [join EXCEPT !.pending = m.row, !.ppc = "send"]
          ELSE /\ join' = [join EXCEPT !.j = @ + 1]
               /\ UNCHANGED <<outer, inner>>
    /\ UNCHANGED tables
    /\ JFrame

\* the scan of right is over: Join goes to the next left row; LeftJoin first
\* builds the padded row if no row was joined
ProducerInnerEnd ==
    /\ join.kind # "none" /\ join.ppc = "inner"
    /\ ~(join.j < tables[2].nrow)
    /\ IF join.kind = "LeftJoin" /\ NeedsPad(join.rowsJoined)
       THEN LET m == MakeRow(Heap, JoinedRow(join.l, EmptyRow(tables[2].ncol)))
            IN /\ outer' = m.H.outer
               /\ inner' = m.H.inner
               /\ join' = [join EXCEPT !.pending = m.row, !.ppc = "sendpad"]
       ELSE /\ join' = [join EXCEPT !.i = @ + 1, !.ppc = "outer"]
            /\ UNCHANGED <<outer, inner>>
    /\ UNCHANGED tables
    /\ JFrame

\* (mutant of Handoff: the send completes whether or not the consumer is at
\* its receive)
HandoffNoRendezvous ==
    /\ join.kind # "none" /\ join.ppc \in {"send", "sendpad"}
    /\ join.cpc \in {"recv", "append"}
    /\ join' = [join EXCEPT
                   !.row = join.pending,
                   !.cpc = "append",
                   !.sent = Append(@, CellsOf(Heap, join.pending)),
                   !.pending = NilHdr,
                   !.rowsJoined = IF join.ppc = "send" THEN @ + 1 ELSE @,
                   !.j = IF join.ppc = "send" THEN @ + 1 ELSE @,
                   !.i = IF join.ppc = "sendpad" THEN @ + 1 ELSE @,
                   !.ppc = IF join.ppc = "send" THEN "inner" ELSE "outer"]
    /\ UNCHANGED <<outer, inner, tables>>
    /\ JFrame

\* out <- row meets the receive of "for row := range out": the channel is
\* unbuffered, so the send and the receive are one step
Handoff ==
    /\ join.kind # "none" /\ join.ppc \in {"send", "sendpad"}
    /\ join.cpc = "recv"
    /\ join' = [join EXCEPT
                   !.row = join.pending,
                   !.cpc = "append",
                   !.sent = Append(@, CellsOf(Heap, join.pending)),
                   !.pending = NilHdr,
                   !.rowsJoined = IF join.ppc = "send" THEN @ + 1 ELSE @,
                   !.j = IF join.ppc = "send" THEN @ + 1 ELSE @,
                   !.i = IF join.ppc = "sendpad" THEN @ + 1 ELSE @,
                   !.ppc = IF join.ppc = "send" THEN "inner" ELSE "outer"]
    /\ UNCHANGED <<outer, inner, tables>>
    /\ JFrame

\* (mutant of ProducerClose: the producer ends without close(out))
ProducerEndsUnclosed ==
    /\ join.kind # "none" /\ join.ppc = "close"
    /\ join' = [join EXCEPT !.ppc = "done"]
    /\ UNCHANGED <<outer, inner, tables>>
    /\ JFrame

\* close(out)
ProducerClose ==
    /\ join.kind # "none" /\ join.ppc = "close"
    /\ join' = [join EXCEPT !.closed = TRUE, !.ppc = "done"]
    /\ UNCHANGED <<outer, inner, tables>>
    /\ JFrame

\* joined := NewDataTable(left.NumCol() + right.NumCol())
ConsumerNew ==
    /\ join.kind # "none" /\ join.cpc = "new"
    /\ tables' = Append(tables, NewDataTable(tables[1].ncol + tables[2].ncol))
    /\ origin' = Append(origin, [kind |-> "new", from |-> 0])
    /\ join' = [join EXCEPT !.cpc = "recv"]
    /\ UNCHANGED <<outer, inner, last, clean, nops, nfresh, mrg, budget>>

\* joined.AppendRow(row), its error dropped; joined is the newest table
ConsumerAppend ==
    /\ join.kind # "none" /\ join.cpc = "append"
    /\ LET a == AppendRow(Heap, tables[Len(tables)], join.row)
       IN /\ outer' = a.H.outer
          /\ inner' = a.H.inner
          /\ tables' = [tables EXCEPT ![Len(tables)] = a.dt]
    /\ join' = [join EXCEPT !.cpc = "recv", !.row = NilHdr]
    /\ JFrame

\* range out ends on the closed channel: return joined
ConsumerReturn ==
    /\ join.kind # "none" /\ join.cpc = "recv" /\ join.closed
    /\ join' = [join EXCEPT !.cpc = "ret"]
    /\ last' = [last EXCEPT !.op = join.kind, !.u = Len(tables), !.res = "ok"]
    /\ UNCHANGED <<outer, inner, tables, origin, clean, nops, nfresh, mrg, budget>>

JNext ==
    \/ ProducerOuter
    \/ ProducerInner
    \/ ProducerInnerEnd
    \/ Handoff
    \/ ProducerClose
    \/ ConsumerNew
    \/ ConsumerAppend
    \/ ConsumerReturn

SpecJoin == JInit /\ [][JNext]_vars

\* ------------------------------------------------ properties of the joins
\* the pairs (i, j) of row indexes, i-major and j-minor
Pairs(n, m) == [k \in 1..(n * m) |-> <<((k - 1) \div m) + 1, ((k - 1) % m) + 1>>]

Holds(f, L, R, p) == Fn(f, L[p[1]], R[p[2]])

\* the pairs that satisfy the predicate, in that order
MatchingPairs(f, L, R) ==
    LET ps == Pairs(Len(L), Len(R))
        RECURSIVE Pick(_)
        Pick(k) == IF k = 0 THEN << >>
                   ELSE IF Holds(f, L, R, ps[k]) THEN Append(Pick(k - 1), ps[k])
                   ELSE Pick(k - 1)
    IN Pick(Len(ps))

\* left_row_i ++ right_row_j over the satisfying pairs
JoinWant(f, L, R) ==
    LET mp == MatchingPairs(f, L, R)
    IN [k \in 1..Len(mp) |-> L[mp[k][1]] \o R[mp[k][2]]]

\* the right rows that left row i matches
MatchesOf(f, L, R, i) == {j \in 1..Len(R) : Fn(f, L[i], R[j])}

\* for each left row its matches in order of j, or one padded row if none
RECURSIVE LeftJoinWant(_, _, _, _, _)
LeftJoinWant(f, L, R, rc, n) ==
    IF n = 0 THEN << >>
    ELSE LeftJoinWant(f, L, R, rc, n - 1) \o
         (IF MatchesOf(f, L, R, n) = {}
          THEN << L[n] \o [k \in 1..rc |-> ""] >>
          ELSE JoinWant(f, << L[n] >>, R))

RECURSIVE SumMax1(_, _, _, _)
SumMax1(f, L, R, n) ==
    IF n = 0 THEN 0
    ELSE SumMax1(f, L, R, n - 1)
         + (IF MatchesOf(f, L, R, n) = {} THEN 1 ELSE Cardinality(MatchesOf(f, L, R, n)))

\* C9: Join returns a new table with col_count = left.col_count +
\* right.col_count whose rows are exactly left_row_i ++ right_row_j over the
\* pairs (i, j) satisfying the predicate, ordered by i then j, one row per
\* pair, and left and right are unchanged.
C9_Join ==
    (join.kind = "Join" /\ join.cpc = "ret")
    => /\ tables[3].ncol = tables[1].ncol + tables[2].ncol
       /\ RowsOf(Heap, tables[3]) = JoinWant(join.fn, join.left0, join.right0)
       /\ tables[3].nrow = Len(MatchingPairs(join.fn, join.left0, join.right0))
       /\ RowsOf(Heap, tables[1]) = join.left0 /\ tables[1].nrow = Len(join.left0)
       /\ RowsOf(Heap, tables[2]) = join.right0 /\ tables[2].nrow = Len(join.right0)
       /\ \/ tables[3].rows.arr = 0
          \/ tables[3].rows.arr \notin {tables[1].rows.arr, tables[2].rows.arr}

\* a Join has returned two or more rows for a predicate that holds of some
\* pairs and not of others
C9_Witness ==
    /\ join.kind = "Join" /\ join.cpc = "ret"
    /\ tables[3].nrow >= 2
    /\ tables[3].nrow < tables[1].nrow * tables[2].nrow

\* C10: LeftJoin emits, for each left row in order, its matches in order of
\* j and then one row padded with right.col_count empty strings iff there was
\* no match; every left row gives max(1, matches) output rows.
C10_LeftJoin ==
    (join.kind = "LeftJoin" /\ join.cpc = "ret")
    => /\ RowsOf(Heap, tables[3])
             = LeftJoinWant(join.fn, join.left0, join.right0, tables[2].ncol,
                            Len(join.left0))
       /\ tables[3].nrow = SumMax1(join.fn, join.left0, join.right0, Len(join.left0))
       /\ \A i \in 1..Len(join.left0) :
             LET mine == {k \in 1..tables[3].nrow :
                             SubSeq(RowsOf(Heap, tables[3])[k], 1, 2) = join.left0[i]}
                 pad == join.left0[i] \o EmptyRow(tables[2].ncol)
             IN /\ mine # {}
                /\ (\E k \in mine : RowsOf(Heap, tables[3])[k] = pad)
                      <=> MatchesOf(join.fn, join.left0, join.right0, i) = {}

\* a LeftJoin has returned with a padded row for one left row and a matched
\* row for another
C10_Witness ==
    /\ join.kind = "LeftJoin" /\ join.cpc = "ret"
    /\ \E i, k \in 1..Len(join.left0) :
          /\ MatchesOf(join.fn, join.left0, join.right0, i) = {}
          /\ MatchesOf(join.fn, join.left0, join.right0, k) # {}
    /\ tables[3].nrow >= 2

\* ---------------------------------------------------------------- HashJoin
\* The caller joins left and right with Join or LeftJoin on the predicate
\* fnLeft(l) == fnRight(r) and then hash-joins the same two tables with
\* fnLeft and fnRight.  tables[3] is the result of the first call and
\* tables[4] the result of HashJoin.  HashJoin runs the same consumer as Join;
\* its producer is at "sizes", "build", "probe", "bucket", "hsend" or "close".

\* (mutant of LeftLarger: equal row counts make left the larger table)
LeftLargerOnTie(nl, nr) == nl >= nr

\* left.NumRow() > right.NumRow(): left is the larger table
LeftLarger(nl, nr) == nl > nr

\* fnJoin(s, l): append(l, s...) when left is the larger, append(s, l...) else
FnJoin(leftLarger, s, l) == IF leftLarger THEN JoinedRow(l, s) ELSE JoinedRow(s, l)

\* (mutant of HtPut: a bucket keeps only its last row)
HtPutOverwrite(ht, key, row) ==
    [k \in DOMAIN ht \cup {key} |-> IF k = key THEN << row >> ELSE ht[k]]

\* if _, exists := ht[key]; !exists { ht[key] = make([][]string, 0) }
\* ht[key] = append(ht[key], row)
HtPut(ht, key, row) ==
    IF key \in DOMAIN ht
    THEN [ht EXCEPT ![key] = Append(@, row)]
    ELSE [k \in DOMAIN ht \cup {key} |-> IF k = key THEN << row >> ELSE ht[k]]

EmptyHt == [k \in {} |-> << >>]

\* the key sequences of the left table: one row more than right may have
LeftKeySeqs == UNION { [1..n -> Keys] : n \in 0..(JoinRows + 1) }

\* left filled with the rows of a key sequence in lks
HStart(lks) ==
    /\ \E kl \in lks, kr \in KeySeqs, f \in DOMAIN EqPreds,
          kind \in {"Join", "LeftJoin"} :
          LET L == FilledWith([outer |-> << >>, inner |-> << >>], 2, LeftRows(kl), Len(kl))
              R == FilledWith(L.H, 3, RightRows(kr), Len(kr))
          IN /\ outer = R.H.outer
             /\ inner = R.H.inner
             /\ tables = << L.dt, R.dt >>
             /\ join = [kind |-> kind, fn |-> f,
                        left0 |-> LeftRows(kl), right0 |-> RightRows(kr),
                        ppc |-> "outer", i |-> 0, j |-> 0, l |-> << >>,
                        rowsJoined |-> 0, pending |-> NilHdr, closed |-> FALSE,
                        cpc |-> "new", row |-> NilHdr, sent |-> << >>,
                        first |-> kind, big |-> 0, small |-> 0, ht |-> EmptyHt,
                        bucket |-> << >>, b |-> 0]
    /\ origin = << [kind |-> "new", from |-> 0], [kind |-> "new", from |-> 0] >>
    /\ last = Call("Join", 1, 2, 0, 0, << >>, "running")
    /\ clean = TRUE
    /\ nops = 0
    /\ nfresh = 0
    /\ mrg = NoMerge
    /\ budget = 0

HInit == HStart(LeftKeySeqs)

\* left with at most as many rows as right may have
HInitFair == HStart(KeySeqs)

\* the first call has returned: HashJoin(left, right, fnLeft, fnRight) starts,
\* out := make(chan []string); go func() ...
HashCall ==
    /\ join.kind \in {"Join", "LeftJoin"} /\ join.cpc = "ret"
    /\ join' = [join EXCEPT !.kind = "HashJoin", !.ppc = "sizes", !.cpc = "new",
                            !.closed = FALSE, !.sent = << >>, !.i = 0, !.j = 0,
                            !.l = << >>, !.rowsJoined = 0]
    /\ last' = Call("HashJoin", 1, 2, 0, 0, << >>, "running")
    /\ UNCHANGED <<outer, inner, tables, origin, clean, nops, nfresh, mrg, budget>>

\* if left.NumRow() > right.NumRow() { smaller, larger = right, left ... }
\* else { smaller, larger = left, right ... }; ht := make(map...)
HashSizes ==
    /\ join.kind = "HashJoin" /\ join.ppc = "sizes"
    /\ LET ll == LeftLarger(tables[1].nrow, tables[2].nrow)
       IN join' = [join EXCEPT !.big = IF ll THEN 1 ELSE 2,
                               !.small = IF ll THEN 2 ELSE 1,
                               !.ht = EmptyHt, !.i = 0, !.ppc = "build"]
    /\ UNCHANGED <<outer, inner, tables>>
    /\ JFrame

\* for i := 0; i < larger.NumRow(); i++ { row := larger.GetRow(i);
\* key := fnLarge(row); ht[key] = append(ht[key], row) }
HashBuild ==
    /\ join.kind = "HashJoin" /\ join.ppc = "build"
    /\ IF join.i < tables[join.big].nrow
       THEN LET row == GetRow(Heap, tables[join.big], join.i).row
                key == KeyOf(EqPreds[join.fn][join.big], row)
            IN join' = [join EXCEPT !.ht = HtPut(@, key, row), !.i = @ + 1]
       ELSE join' = [join EXCEPT !.i = 0, !.ppc = "probe"]
    /\ UNCHANGED <<outer, inner, tables>>
    /\ JFrame

\* for i := 0; i < smaller.NumRow(); i++ { rowSmall := smaller.GetRow(i);
\* key := fnSmall(rowSmall); if bucket, exists := ht[key]; exists {
\* after the loop the function returns and the deferred close(out) runs
HashProbe ==
    /\ join.kind = "HashJoin" /\ join.ppc = "probe"
    /\ IF join.i < tables[join.small].nrow
       THEN LET rowSmall == GetRow(Heap, tables[join.small], join.i).row
                key == KeyOf(EqPreds[join.fn][join.small], rowSmall)
            IN join' = [join EXCEPT
                           !.l = rowSmall,
                           !.bucket = IF key \in DOMAIN join.ht THEN join.ht[key]
                                      ELSE << >>,
                           !.b = 0, !.ppc = "bucket"]
       ELSE join' = [join EXCEPT !.ppc = "close"]
    /\ UNCHANGED <<outer, inner, tables>>
    /\ JFrame

\* for _, rowLarge := range bucket { the joined row is built and the producer
\* reaches its send }
HashBucket ==
    /\ join.kind = "HashJoin" /\ join.ppc = "bucket"
    /\ IF join.b < Len(join.bucket)
       THEN LET m == MakeRow(Heap, FnJoin(join.big = 1, join.l, join.bucket[join.b + 1]))
            IN /\ outer' = m.H.outer
               /\ inner' = m.H.inner
               /\ join' = [join EXCEPT !.pending = m.row, !.ppc = "hsend"]
       ELSE /\ join' = [join EXCEPT !.i = @ + 1, !.bucket = << >>, !.b = 0,
                                    !.ppc = "probe"]
            /\ UNCHANGED <<outer, inner>>
    /\ UNCHANGED tables
    /\ JFrame

\* out <- fnJoin(rowSmall, rowLarge) meets the receive of range out
HashHandoff ==
    /\ join.kind = "HashJoin" /\ join.ppc = "hsend"
    /\ join.cpc = "recv"
    /\ join' = [join EXCEPT
                   !.row = join.pending,
                   !.cpc = "append",
                   !.sent = Append(@, CellsOf(Heap, join.pending)),
                   !.pending = NilHdr,
                   !.b = @ + 1,
                   !.ppc = "bucket"]
    /\ UNCHANGED <<outer, inner, tables>>
    /\ JFrame

HNext ==
    \/ JNext
    \/ HashCall
    \/ HashSizes
    \/ HashBuild
    \/ HashProbe
    \/ HashBucket
    \/ HashHandoff

SpecHash == HInit /\ [][HNext]_vars

\* the Go scheduler runs a goroutine that can take a step
SpecHashFair == HInitFair /\ [][HNext]_vars /\ WF_vars(HNext)

\* ---------------------------------------------- properties of HashJoin
\* how many times row r occurs in seq
Occurs(seq, r) == Cardinality({k \in 1..Len(seq) : seq[k] = r})

\* the two sequences hold the same rows the same number of times
SameRows(A, B) ==
    /\ Len(A) = Len(B)
    /\ \A k \in 1..Len(A) : Occurs(A, A[k]) = Occurs(B, A[k])

HashReturned == join.kind = "HashJoin" /\ join.cpc = "ret"

\* C11: HashJoin(left, right, kL, kR) and Join(left, right, kL(l) == kR(r))
\* return the same multiset of rows and the same col_count.
C11_HashJoinSameAsJoin ==
    (HashReturned /\ join.first = "Join")
    => /\ tables[4].ncol = tables[3].ncol
       /\ tables[4].nrow = tables[3].nrow
       /\ SameRows(RowsOf(Heap, tables[4]), RowsOf(Heap, tables[3]))

\* both calls have returned the same rows, two or more of them, in different
\* orders, for keys that repeat
C11_Witness ==
    /\ HashReturned /\ join.first = "Join"
    /\ tables[4].nrow >= 2
    /\ tables[4].nrow < tables[1].nrow * tables[2].nrow
    /\ RowsOf(Heap, tables[4]) # RowsOf(Heap, tables[3])
    /\ SameRows(RowsOf(Heap, tables[4]), RowsOf(Heap, tables[3]))

\* left_row_i ++ right_row_j over the satisfying pairs, ordered by j and
\* then by i
RightMajorWant(f, L, R) ==
    LET ps == Pairs(Len(R), Len(L))
        RECURSIVE Pick(_)
        Pick(k) == IF k = 0 THEN << >>
                   ELSE IF Fn(f, L[ps[k][2]], R[ps[k][1]])
                        THEN Append(Pick(k - 1), L[ps[k][2]] \o R[ps[k][1]])
                        ELSE Pick(k - 1)
    IN Pick(Len(ps))

\* C15: HashJoin builds its map over left only when left has more rows than
\* right and over right otherwise; it lists the probed table's rows in index
\* order and, for each, the matching built rows in index order, every row
\* being left_row ++ right_row.  So with left.row_count <= right.row_count
\* its output is the output of Join in the same order, and otherwise it is
\* ordered by right row and then by left row.
C15_HashJoinOrder ==
    /\ (join.kind = "HashJoin" /\ join.ppc \notin {"sizes"})
       => (join.big = 1 <=> Len(join.left0) > Len(join.right0))
    /\ HashReturned
       => /\ RowsOf(Heap, tables[4])
                = IF Len(join.left0) > Len(join.right0)
                  THEN RightMajorWant(join.fn, join.left0, join.right0)
                  ELSE JoinWant(join.fn, join.left0, join.right0)
          /\ (join.first = "Join" /\ Len(join.left0) <= Len(join.right0))
                => RowsOf(Heap, tables[4]) = RowsOf(Heap, tables[3])

\* a HashJoin with more left rows than right rows has returned its rows in an
\* order that is not the order of Join
C15_Witness ==
    /\ HashReturned /\ join.first = "Join"
    /\ join.big = 1
    /\ Len(join.left0) > Len(join.right0)
    /\ RowsOf(Heap, tables[4]) # RowsOf(Heap, tables[3])
    /\ RowsOf(Heap, tables[4]) = RightMajorWant(join.fn, join.left0, join.right0)

\* ------------------------------------- the producer and the consumer
\* the table the running call returns, once the consumer has made it
Joined == tables[Len(tables)]

\* rows the producer has built for sending so far
Built == Len(join.sent) + (IF join.pending = NilHdr THEN 0 ELSE 1)

HandoffInv ==
    /\ join.cpc = "ret"
          => /\ join.closed
             /\ RowsOf(Heap, Joined) = join.sent
             /\ Joined.nrow = Len(join.sent)
    /\ join.closed => (join.ppc = "done" /\ join.pending = NilHdr)
    /\ join.cpc = "new" => join.sent = << >>
    /\ join.cpc \in {"recv", "append"}
          => /\ Len(join.sent) = Joined.nrow + (IF join.cpc = "append" THEN 1 ELSE 0)
             /\ RowsOf(Heap, Joined) = SubSeq(join.sent, 1, Joined.nrow)
             /\ join.cpc = "append"
                   => CellsOf(Heap, join.row) = join.sent[Len(join.sent)]
    /\ Built <= Len(join.sent) + 1

HandoffStep ==
    /\ (join.closed /\ join'.kind = join.kind)
          => (join'.sent = join.sent /\ join'.pending = NilHdr /\ join'.closed)
    /\ (join'.cpc = "ret" /\ join.cpc # "ret") => join.closed
    /\ join'.kind = join.kind
          => (\/ join'.sent = join.sent
              \/ join'.sent = Append(join.sent, CellsOf(Heap, join.pending))
                    /\ join.cpc = "recv" /\ join.pending # NilHdr)

\* C12: in every interleaving of the producer and the consumer of a Join,
\* LeftJoin or HashJoin call the returned table holds exactly the rows the
\* producer handed off, in that order and once each; the consumer returns
\* only after close(out); nothing is sent after close(out); and the producer
\* is never more than one row ahead of the rows the consumer has received.
C12_Handoff == [](HandoffInv) /\ [][HandoffStep]_vars

\* a LeftJoin and then a HashJoin have each returned their handed-off rows,
\* HashJoin two or more
C12_Witness ==
    /\ HashReturned /\ join.first = "LeftJoin"
    /\ Len(join.sent) >= 2
    /\ RowsOf(Heap, tables[4]) = join.sent
    /\ tables[3].nrow >= 2

\* no goroutine can take a step
Stuck == ~ENABLED HNext

\* C13: every Join, LeftJoin and HashJoin call eventually returns under fair
\* scheduling; the only state in which neither task can step is the one
\* after the last return (no producer blocked on a send nobody receives, no
\* consumer waiting on a channel never closed), and no table is returned
\* before close(out).
C13_JoinsReturn ==
    /\ <>(join.kind = join.first /\ join.cpc = "ret")
    /\ <>HashReturned
    /\ [](Stuck => HashReturned)
    /\ [](join.cpc = "ret" => (join.closed /\ join.ppc = "done"))

\* the last call has returned rows and neither task has a step left
C13_Witness ==
    /\ HashReturned /\ Stuck
    /\ tables[3].nrow >= 1 /\ tables[4].nrow >= 1
    /\ join.closed

\* -------------------------------------------------------------------- JSON
\* MarshalJSON is json.Marshal(dt.rows) and UnmarshalJSON parses a [][]string.
\* A []byte is a sequence of characters; in this part a cell is a sequence of
\* characters too.  "xFF" is a byte that is not valid UTF-8 and "uFFFD" the
\* replacement character U+FFFD.

Quote == "\""
Backslash == "\\"

\* the JSON text of one character of a string (encoding/json: quotes and
\* backslashes are escaped, an invalid byte becomes the escape of U+FFFD)
EncodeChar(c) ==
    CASE c = Quote -> << Backslash, Quote >>
      [] c = Backslash -> << Backslash, Backslash >>
      [] c = "xFF" -> << Backslash, "u", "f", "f", "f", "d" >>
      [] OTHER -> << c >>

RECURSIVE EncodeChars(_)
EncodeChars(str) ==
    IF str = << >> THEN << >> ELSE EncodeChar(Head(str)) \o EncodeChars(Tail(str))

EncodeString(str) == << Quote >> \o EncodeChars(str) \o << Quote >>

\* the elements, separated by commas
RECURSIVE EncodeList(_)
EncodeList(texts) ==
    IF texts = << >> THEN << >>
    ELSE IF Len(texts) = 1 THEN texts[1]
    ELSE texts[1] \o << "," >> \o EncodeList(Tail(texts))

NullText == << "n", "u", "l", "l" >>

\* a []string: null when nil
EncodeRow(H, h) ==
    IF h.a = 0 THEN NullText
    ELSE LET cells == CellsOf(H, h)
         IN << "[" >> \o EncodeList([j \in 1..Len(cells) |-> EncodeString(cells[j])])
                \o << "]" >>

\* dt.MarshalJSON(): json.Marshal(dt.rows); the rows NewDataTable makes are
\* an empty slice, not nil
MarshalJSON(H, dt) ==
    << "[" >> \o EncodeList([i \in 1..dt.rows.len |-> EncodeRow(H, HdrAt(H, dt.rows, i - 1))])
       \o << "]" >>

\* The decoder reads the text one character at a time.  Its state: mode, the
\* place in the grammar; rows, the []string values finished; cells, the
\* strings finished of the array being read; str, the string being read; n,
\* the characters matched of null or of the escape of U+FFFD.
DecodeStart ==
    [mode |-> "start", rows |-> << >>, cells |-> << >>, str |-> << >>, n |-> 0]

UEscape == << "f", "f", "f", "d" >>

DecodeStep(st, c) ==
    LET fail == [st EXCEPT !.mode = "fail"]
        rowDone == [st EXCEPT !.mode = "rowend",
                              !.rows = Append(@, [nil |-> FALSE, cells |-> st.cells]),
                              !.cells = << >>]
    IN CASE st.mode = "start" ->
               IF c = "[" THEN [st EXCEPT !.mode = "rows0"] ELSE fail
         [] st.mode \in {"rows0", "rows"} ->
               IF c = "[" THEN [st EXCEPT !.mode = "cells0", !.cells = << >>]
               ELSE IF c = "n" THEN [st EXCEPT !.mode = "null", !.n = 1]
               ELSE IF c = "]" /\ st.mode = "rows0" THEN [st EXCEPT !.mode = "end"]
               ELSE fail
         [] st.mode = "rowend" ->
               IF c = "," THEN [st EXCEPT !.mode = "rows"]
               ELSE IF c = "]" THEN [st EXCEPT !.mode = "end"]
               ELSE fail
         [] st.mode = "null" ->
               IF c # NullText[st.n + 1] THEN fail
               ELSE IF st.n + 1 < Len(NullText) THEN [st EXCEPT !.n = @ + 1]
               ELSE [st EXCEPT !.mode = "rowend", !.n = 0,
                               !.rows = Append(@, [nil |-> TRUE, cells |-> << >>])]
         [] st.mode \in {"cells0", "cells"} ->
               IF c = Quote THEN [st EXCEPT !.mode = "str", !.str = << >>]
               ELSE IF c = "]" /\ st.mode = "cells0" THEN rowDone
               ELSE fail
         [] st.mode = "cellend" ->
               IF c = "," THEN [st EXCEPT !.mode = "cells"]
               ELSE IF c = "]" THEN rowDone
               ELSE fail
         [] st.mode = "str" ->
               IF c = Quote
               THEN [st EXCEPT !.mode = "cellend", !.cells = Append(@, st.str),
                               !.str = << >>]
               ELSE IF c = Backslash THEN [st EXCEPT !.mode = "esc"]
               ELSE [st EXCEPT !.str = Append(@, c)]
         [] st.mode = "esc" ->
               IF c \in {Quote, Backslash}
               THEN [st EXCEPT !.mode = "str", !.str = Append(@, c)]
               ELSE IF c = "u" THEN [st EXCEPT !.mode = "uni", !.n = 0]
               ELSE fail
         [] st.mode = "uni" ->
               IF c # UEscape[st.n + 1] THEN fail
               ELSE IF st.n + 1 < Len(UEscape) THEN [st EXCEPT !.n = @ + 1]
               ELSE [st EXCEPT !.mode = "str", !.n = 0, !.str = Append(@, "uFFFD")]
         [] OTHER -> fail

\* the decoder's state after the first k characters of d (the state after
\* k - 1 characters is computed once and then stepped)
RECURSIVE Decode(_, _)
Decode(d, k) ==
    IF k = 0 THEN DecodeStart
    ELSE CHOOSE st \in {DecodeStep(prev, d[k]) : prev \in {Decode(d, k - 1)}} : TRUE

\* json.Unmarshal(data, &rows) for rows [][]string
Unmarshal(d) ==
    IF d = NullText THEN [ok |-> TRUE, nil |-> TRUE, rows |-> << >>]
    ELSE LET st == Decode(d, Len(d))
         IN [ok |-> st.mode = "end", nil |-> FALSE, rows |-> st.rows]

\* the decoded rows in new backing arrays (the capacity the decoder leaves
\* is not observed here: no row is appended afterwards)
RECURSIVE StoreRows(_, _, _)
StoreRows(H, rows, k) ==
    IF k = 0 THEN [H |-> H, hdrs |-> << >>]
    ELSE LET p == StoreRows(H, rows, k - 1)
         IN IF rows[k].nil
            THEN [H |-> p.H, hdrs |-> Append(p.hdrs, NilHdr)]
            ELSE LET m == MakeRow(p.H, rows[k].cells)
                 IN [H |-> m.H, hdrs |-> Append(p.hdrs, m.row)]

\* dt.UnmarshalJSON(data) on a non-nil dt
UnmarshalJSON(H, dt, d) ==
    LET u == Unmarshal(d)
        nrow == Len(u.rows)
        ncol == IF nrow > 0 THEN Len(u.rows[1].cells) ELSE 0
    IN IF ~u.ok THEN [H |-> H, dt |-> dt, err |-> "syntax"]
       ELSE IF \E x \in 1..nrow : Len(u.rows[x].cells) # ncol
       THEN [H |-> H, dt |-> dt, err |-> "errNumCol"]
       ELSE IF u.nil \/ nrow = 0
       THEN [H |-> H, dt |-> [rows |-> NilRows, nrow |-> 0, ncol |-> 0], err |-> "nil"]
       ELSE LET st == StoreRows(H, u.rows, nrow)
            IN [H |-> [st.H EXCEPT !.outer = Append(@, st.hdrs)],
                dt |-> [rows |-> [arr |-> Len(st.H.outer) + 1, off |-> 0, len |-> nrow],
                        nrow |-> nrow, ncol |-> ncol],
                err |-> "nil"]

\* the rows the caller fills the table with: every cell of a row is the
\* row's character followed by its column, or every cell is the empty string
RowChars == {"a", Quote, Backslash, ",", "]", "xFF", "empty"}

ColTag == << "1", "2", "3", "4", "5" >>

JSONRow(c, ncol) ==
    [j \in 1..ncol |-> IF c = "empty" THEN << >> ELSE << c, ColTag[j] >>]

JSONInit ==
    /\ \E c \in 0..MaxCol, k \in 0..InitRows :
          \E cs \in [1..k -> RowChars] :
             LET f == FilledWith([outer |-> << >>, inner |-> << >>], c,
                                 [i \in 1..k |-> JSONRow(cs[i], c)], k)
             IN /\ outer = f.H.outer
                /\ inner = f.H.inner
                /\ tables = << f.dt >>
                /\ nfresh = k
    /\ origin = << [kind |-> "new", from |-> 0] >>
    /\ last = Call("NewDataTable", 1, 0, 0, 0, << >>, "ok")
    /\ clean = TRUE
    /\ nops = 0
    /\ mrg = NoMerge
    /\ join = NoJoin
    /\ budget = 0

\* data, err := json.Marshal(dt)
DoMarshalJSON ==
    /\ last.op = "NewDataTable"
    /\ last' = Call("MarshalJSON", 1, 0, 0, 0, MarshalJSON(Heap, tables[1]), "nil")
    /\ UNCHANGED <<outer, inner, tables, origin, clean, nops, nfresh, mrg, join, budget>>

\* var dt2 DataTable; err := json.Unmarshal(data, &dt2)
DoUnmarshalJSON ==
    /\ last.op = "MarshalJSON"
    /\ LET r == UnmarshalJSON(Heap, [rows |-> NilRows, nrow |-> 0, ncol |-> 0], last.vals)
       IN /\ outer' = r.H.outer
          /\ inner' = r.H.inner
          /\ tables' = Append(tables, r.dt)
          /\ origin' = Append(origin, [kind |-> "new", from |-> 0])
          /\ last' = Call("UnmarshalJSON", 2, 1, 0, 0, last.vals, r.err)
    /\ UNCHANGED <<clean, nops, nfresh, mrg, join, budget>>

JSONNext ==
    \/ DoMarshalJSON
    \/ DoUnmarshalJSON

SpecJSON == JSONInit /\ [][JSONNext]_vars

\* C14: for every table t, also with zero rows, decoding the JSON encoding of
\* t gives a table with the same row_count, the same col_count and the same
\* cell at every position.
C14_JSONRoundTrip ==
    last.op = "UnmarshalJSON"
    => /\ last.res = "nil"
       /\ tables[2].nrow = tables[1].nrow
       /\ tables[2].ncol = tables[1].ncol
       /\ RowsOf(Heap, tables[2]) = RowsOf(Heap, tables[1])

====
